---- MODULE Spec2Model ----
(***************************************************************************)
(* PO L1-L2-L3 classifier: the classification request/response contract   *)
(* of app.py (cache, parse, schema check, single retry, taxonomy check)   *)
(* and its three callers (Single, Bulk CSV, Evaluate), with the           *)
(* collaborator classify_po of classifier.py and the table of             *)
(* taxonomy.py.                                                            *)
(*                                                                         *)
(* Python strings are sequences of one-character strings, so that         *)
(* str.strip, str.lower and str.split are computed, not assumed.          *)
(* JSON / Python values are tagged records:                                *)
(*   [t |-> "null"]  None          [t |-> "bool", b]   True / False       *)
(*   [t |-> "str", s]  str         [t |-> "num", n]    number, hundredths *)
(*   [t |-> "arr", items]  list    [t |-> "obj", kv]   dict, as the       *)
(*   sequence of its <<key, value>> pairs in insertion order.             *)
(***************************************************************************)
EXTENDS Integers, Sequences, FiniteSets, TLC

VARIABLES
  cache,      \* st.session_state.cache: key -> parsed value
  history,    \* st.session_state.history: newest first
  po_desc,    \* st.session_state.po_desc: text of the description widget
  supplier,   \* st.session_state.supplier: text of the supplier widget
  pc,         \* "idle"; "bulk" / "eval": the loop of a click is running;
              \* "bulk_done" / "eval_done": the page shows its output
  rows,       \* rows of the uploaded CSV of the running loop
  idx,        \* number of rows the running loop has handled
  results,    \* results list of the running loop
  progress,   \* last value given to progress.progress, as <<idx, n>>
  correct,    \* evaluation counter
  total,      \* evaluation counter
  accuracy,   \* evaluation metric, in tenths of a percent; -1 before any
  req,        \* the request handled last: inputs, replies, calls, outcome
  nReq,       \* requests handled in the session (bounds the exploration)
  call        \* a function of the program called on its own: what it was
              \* given, where it stands, what it gave back

vars == <<cache, history, po_desc, supplier, pc, rows, idx, results,
          progress, correct, total, accuracy, req, nReq, call>>

-----------------------------------------------------------------------------
(* Python str methods                                                      *)

UpperAlpha == <<"A","B","C","D","E","F","G","H","I","J","K","L","M",
                "N","O","P","Q","R","S","T","U","V","W","X","Y","Z">>
LowerAlpha == <<"a","b","c","d","e","f","g","h","i","j","k","l","m",
                "n","o","p","q","r","s","t","u","v","w","x","y","z">>
Whitespace == {" ", "\t", "\n", "\r"}

LowerChar(c) ==
  IF \E i \in 1..26 : UpperAlpha[i] = c
  THEN LowerAlpha[CHOOSE i \in 1..26 : UpperAlpha[i] = c]
  ELSE c

\* str.lower()
lower(s) == [i \in 1..Len(s) |-> LowerChar(s[i])]

RECURSIVE lstrip(_)
lstrip(s) ==
  IF s # <<>> /\ Head(s) \in Whitespace THEN lstrip(Tail(s)) ELSE s

RECURSIVE rstrip(_)
rstrip(s) ==
  IF s # <<>> /\ s[Len(s)] \in Whitespace
  THEN rstrip(SubSeq(s, 1, Len(s) - 1))
  ELSE s

\* str.strip()
strip(s) == rstrip(lstrip(s))

\* str.split(sep) for a one-character separator
RECURSIVE split(_, _)
split(s, sep) ==
  IF \A i \in 1..Len(s) : s[i] # sep
  THEN <<s>>
  ELSE LET k == CHOOSE i \in 1..Len(s) :
                  s[i] = sep /\ \A j \in 1..(i - 1) : s[j] # sep
       IN  <<SubSeq(s, 1, k - 1)>> \o split(SubSeq(s, k + 1, Len(s)), sep)

\* str.startswith(prefix)
startswith(s, prefix) ==
  Len(s) >= Len(prefix) /\ SubSeq(s, 1, Len(prefix)) = prefix

\* needle in haystack, for two str
IsSubstring(needle, hay) ==
  \E i \in 0..(Len(hay) - Len(needle)) :
     SubSeq(hay, i + 1, i + Len(needle)) = needle

RECURSIVE Repeat(_, _)
Repeat(c, n) == IF n = 0 THEN <<>> ELSE <<c>> \o Repeat(c, n - 1)

-----------------------------------------------------------------------------
(* Python / JSON values                                                    *)

None == [t |-> "null"]
JStr(s) == [t |-> "str", s |-> s]
JNaN == [t |-> "nan"]
JNum(n) == [t |-> "num", n |-> n]
JBool(b) == [t |-> "bool", b |-> b]
JArr(items) == [t |-> "arr", items |-> items]
JObj(kv) == [t |-> "obj", kv |-> kv]

\* bool(v): Python truthiness, as used by `x or ""` and `if x`
Truthy(v) ==
  CASE v.t = "null" -> FALSE
    [] v.t = "bool" -> v.b
    [] v.t = "str"  -> v.s # <<>>
    [] v.t = "num"  -> v.n # 0
    [] v.t = "nan"  -> TRUE
    [] v.t = "arr"  -> v.items # <<>>
    [] v.t = "obj"  -> v.kv # <<>>

\* x or y
Or(x, y) == IF Truthy(x) THEN x ELSE y

\* dict: key in d, d.get(key), d.keys()
HasKey(d, k) == \E i \in 1..Len(d.kv) : d.kv[i][1] = k
Get(d, k) ==
  IF HasKey(d, k)
  THEN d.kv[CHOOSE i \in 1..Len(d.kv) : d.kv[i][1] = k][2]
  ELSE None
Keys(d) == [i \in 1..Len(d.kv) |-> d.kv[i][1]]

\* dict[key] = value: a new key goes last, an old one keeps its place
Put(d, k, v) ==
  IF HasKey(d, k)
  THEN JObj([i \in 1..Len(d.kv) |->
               IF d.kv[i][1] = k THEN <<k, v>> ELSE d.kv[i]])
  ELSE JObj(Append(d.kv, <<k, v>>))

-----------------------------------------------------------------------------
(* taxonomy.py                                                             *)

\* taxonomy.py TAXONOMY, line by line
TAXONOMY ==
  <<
    <<"L","1"," ","|"," ","L","2"," ","|"," ","L","3">>,
    <<"-","-","-","|","-","-","-","|","-","-","-">>,
    <<"B","a","n","k","i","n","g"," ","&"," ","F","i","n","a","n","c","i","a","l"," ","|"," ","B","a","n","k","i","n","g"," ","C","h","a","r","g","e","s"," ","|">>,
    <<"B","a","n","k","i","n","g"," ","&"," ","F","i","n","a","n","c","i","a","l"," ","|"," ","G","l","o","b","a","l"," ","R","a","t","i","n","g"," ","|">>,
    <<"B","a","n","k","i","n","g"," ","&"," ","F","i","n","a","n","c","i","a","l"," ","|"," ","I","n","s","u","r","a","n","c","e"," ","|">>,
    <<"F","a","c","i","l","i","t","i","e","s"," ","|"," ","F","o","o","d"," ","S","e","r","v","i","c","e","s"," ","|">>,
    <<"F","a","c","i","l","i","t","i","e","s"," ","|"," ","J","a","n","i","t","o","r","i","a","l"," ","S","e","r","v","i","c","e","s"," ","|">>,
    <<"F","a","c","i","l","i","t","i","e","s"," ","|"," ","S","e","c","u","r","i","t","y"," ","S","e","r","v","i","c","e","s"," ","|">>,
    <<"F","a","c","i","l","i","t","i","e","s"," ","|"," ","U","n","i","f","o","r","m"," ","|">>,
    <<"H","R"," ","|"," ","E","m","p","l","o","y","e","e"," ","B","e","n","e","f","i","t","s"," ","|">>,
    <<"H","R"," ","|"," ","E","m","p","l","o","y","e","e"," ","R","e","c","o","g","n","i","t","i","o","n"," ","|">>,
    <<"H","R"," ","|"," ","R","e","c","r","u","i","t","m","e","n","t"," ","S","e","r","v","i","c","e","s"," ","|">>,
    <<"H","R"," ","|"," ","T","r","a","i","n","i","n","g"," ","|">>,
    <<"I","T"," ","|"," ","H","a","r","d","w","a","r","e"," ","|"," ","A","c","c","e","s","s","o","r","i","e","s">>,
    <<"I","T"," ","|"," ","H","a","r","d","w","a","r","e"," ","|"," ","L","a","p","t","o","p">>,
    <<"I","T"," ","|"," ","H","a","r","d","w","a","r","e"," ","|"," ","M","o","b","i","l","e">>,
    <<"I","T"," ","|"," ","S","o","f","t","w","a","r","e"," ","|"," ","L","i","c","e","n","s","e","s"," ","C","o","s","t">>,
    <<"I","T"," ","|"," ","S","o","f","t","w","a","r","e"," ","|"," ","S","u","b","s","c","r","i","p","t","i","o","n">>,
    <<"P","r","o","f","e","s","s","i","o","n","a","l"," ","S","e","r","v","i","c","e","s"," ","|"," ","A","u","d","i","t"," ","S","e","r","v","i","c","e","s"," ","|">>,
    <<"P","r","o","f","e","s","s","i","o","n","a","l"," ","S","e","r","v","i","c","e","s"," ","|"," ","C","o","n","s","u","l","t","i","n","g"," ","S","e","r","v","i","c","e","s"," ","|">>,
    <<"P","r","o","f","e","s","s","i","o","n","a","l"," ","S","e","r","v","i","c","e","s"," ","|"," ","L","e","g","a","l"," ","S","e","r","v","i","c","e","s"," ","|">>,
    <<"P","r","o","f","e","s","s","i","o","n","a","l"," ","S","e","r","v","i","c","e","s"," ","|"," ","R","i","s","k"," ","C","o","n","s","u","l","t","i","n","g"," ","S","e","r","v","i","c","e","s"," ","|">>,
    <<"T","&","E"," ","|"," ","A","i","r"," ","|">>,
    <<"T","&","E"," ","|"," ","F","o","o","d"," ","|">>,
    <<"T","&","E"," ","|"," ","G","R","O","U","N","D"," ","T","R","A","N","S","P","O","R","T","A","T","I","O","N"," ","|">>,
    <<"T","&","E"," ","|"," ","H","o","t","e","l"," ","|">>,
    <<"T","&","E"," ","|"," ","P","a","r","k","i","n","g"," ","f","e","e","s"," ","|">>,
    <<"U","n","a","d","d","r","e","s","s","a","b","l","e"," ","|"," ","T","a","x"," ","|">>,
    <<"U","t","i","l","i","t","i","e","s"," ","|"," ","P","o","w","e","r"," ","|">>,
    <<"U","t","i","l","i","t","i","e","s"," ","|"," ","W","a","t","e","r"," ","|">>
  >>

Bar == "|"

\* taxonomy.py get_taxonomy_rows: skip the header and rule lines, split on
\* "|", strip the parts, pad to three
RECURSIVE PadTo3(_)
PadTo3(parts) == IF Len(parts) < 3 THEN PadTo3(Append(parts, <<>>)) ELSE parts

RowOfLine(line) ==
  LET raw   == split(line, Bar)
      parts == PadTo3([i \in 1..Len(raw) |-> strip(raw[i])])
  IN  [L1 |-> parts[1], L2 |-> parts[2], L3 |-> parts[3]]

RECURSIVE RowsOfLines(_)
RowsOfLines(lines) ==
  IF lines = <<>> THEN <<>>
  ELSE LET line == strip(Head(lines))
           rest == RowsOfLines(Tail(lines))
       IN  IF line = <<>> \/ startswith(line, <<"L","1"," ">>)
              \/ startswith(line, <<"-","-","-">>)
           THEN rest
           ELSE <<RowOfLine(line)>> \o rest

get_taxonomy_rows == RowsOfLines(TAXONOMY)

\* taxonomy.py get_taxonomy_set: the set of "L1|L2|L3" strings
get_taxonomy_set ==
  { r.L1 \o <<Bar>> \o r.L2 \o <<Bar>> \o r.L3 :
      r \in { get_taxonomy_rows[i] : i \in 1..Len(get_taxonomy_rows) } }

-----------------------------------------------------------------------------
(* classifier.py                                                           *)

\* The text of a model reply (a Python str) is kept as what json.loads makes
\* of it: wf says whether it decodes at all, doc is the decoded value.
Text(wf, doc) == [t |-> "text", wf |-> wf, doc |-> doc]

\* One transport attempt of client.chat.completions.create: it raises, or
\* answers with message.content
AttemptFails == [fails |-> TRUE]
AttemptGives(content) == [fails |-> FALSE, content |-> content]

\* classifier.py classify_po: `for attempt in range(2)`: the content of the
\* first attempt that succeeds, RuntimeError after two failures.
\* transport is the sequence of outcomes the attempts would have.
Attempts == 2

RECURSIVE classify_po_from(_, _)
classify_po_from(transport, attempt) ==
  IF attempt >= Attempts
  THEN [raises |-> TRUE, attempts |-> attempt]
  ELSE IF ~transport[attempt + 1].fails
       THEN [raises |-> FALSE, content |-> transport[attempt + 1].content,
             attempts |-> attempt + 1]
       ELSE classify_po_from(transport, attempt + 1)

classify_po(transport) == classify_po_from(transport, 0)

-----------------------------------------------------------------------------
(* app.py helpers                                                          *)

K_L1 == <<"L","1">>
K_L2 == <<"L","2">>
K_L3 == <<"L","3">>
K_l1 == <<"l","1">>
K_l2 == <<"l","2">>
K_l3 == <<"l","3">>
K_confidence == <<"c","o","n","f","i","d","e","n","c","e">>
K_match_quality == <<"m","a","t","c","h","_","q","u","a","l","i","t","y">>
Empty == JStr(<<>>)

\* json.loads(text): the decoded value, or an exception
json_loads(text) ==
  IF text.wf THEN [exc |-> FALSE, value |-> text.doc] ELSE [exc |-> TRUE]

\* app.py _parse_result
_parse_result(result) ==
  IF result.t = "obj" THEN result
  ELSE IF result.t = "text"
       THEN IF json_loads(result).exc THEN None ELSE json_loads(result).value
       ELSE None

\* app.py _cache_key
_cache_key(description, supp) ==
  lower(strip(description)) \o <<Bar>> \o lower(strip(supp))

\* `key in parsed` for whatever json.loads returned: dict key, list element,
\* substring of a str; TypeError for a number or a bool
InRaises(parsed) == parsed.t \in {"num", "nan", "bool", "null"}
In(key, parsed) ==
  CASE parsed.t = "obj" -> HasKey(parsed, key)
    [] parsed.t = "arr" -> \E i \in 1..Len(parsed.items) : parsed.items[i] = JStr(key)
    [] parsed.t = "str" -> IsSubstring(key, parsed.s)
    [] OTHER -> FALSE

\* app.py _validate_schema: (ok, missing keys in the order of `required`),
\* or the TypeError of `key not in parsed`
required == <<K_L1, K_L2, K_L3>>

\* ', '.join(names)
RECURSIVE JoinComma(_)
JoinComma(names) ==
  IF names = <<>> THEN <<>>
  ELSE IF Len(names) = 1 THEN names[1]
  ELSE names[1] \o <<",", " ">> \o JoinComma(Tail(names))

\* The two messages of _validate_schema
MsgOK == <<"O","K">>
MsgMissing(missing) ==
  <<"M","i","s","s","i","n","g"," ","f","i","e","l","d","s",":"," ">>
    \o JoinComma(missing)

\* _validate_schema counting a key whose value is None as missing
_validate_schema_NonEmpty(parsed) ==
  IF InRaises(parsed)
  THEN [exc |-> TRUE, ok |-> FALSE, missing |-> <<>>, msg |-> <<>>]
  ELSE LET missing ==
             SelectSeq(required,
                       LAMBDA key : \/ ~In(key, parsed)
                                    \/ (parsed.t = "obj" /\ Get(parsed, key) = None))
       IN  [exc |-> FALSE, ok |-> missing = <<>>, missing |-> missing,
            msg |-> IF missing = <<>> THEN MsgOK ELSE MsgMissing(missing)]

_validate_schema(parsed) ==
  IF InRaises(parsed)
  THEN [exc |-> TRUE, ok |-> FALSE, missing |-> <<>>, msg |-> <<>>]
  ELSE LET missing == SelectSeq(required, LAMBDA key : ~In(key, parsed))
       IN  [exc |-> FALSE, ok |-> missing = <<>>, missing |-> missing,
            msg |-> IF missing = <<>> THEN MsgOK ELSE MsgMissing(missing)]

\* app.py _extract_levels, for a dict (anything else has no .keys():
\* AttributeError). The dict comprehension key_map keeps, for each
\* normalised name, the last key that normalises to it.
KeyMap(parsed, name) ==
  LET I == { i \in 1..Len(parsed.kv) : lower(strip(parsed.kv[i][1])) = name }
  IN  IF I = {} THEN <<FALSE, <<>>>>
      ELSE <<TRUE, parsed.kv[CHOOSE i \in I : \A j \in I : j <= i][1]>>

Level(parsed, name) ==
  IF KeyMap(parsed, name)[1] THEN Get(parsed, KeyMap(parsed, name)[2]) ELSE None

_extract_levels_raises(parsed) == parsed.t # "obj"
_extract_levels(parsed) ==
  <<Level(parsed, K_l1), Level(parsed, K_l2), Level(parsed, K_l3)>>

\* str(v) of a Python value. A number prints its digits; list and dict print
\* their bracket (no taxonomy string starts with one, the rest is not kept).
Digits == <<"0","1","2","3","4","5","6","7","8","9">>
RECURSIVE NatStr(_)
NatStr(n) == IF n < 10 THEN <<Digits[n + 1]>>
             ELSE NatStr(n \div 10) \o <<Digits[(n % 10) + 1]>>
NumStr(n) ==
  LET a    == IF n < 0 THEN -n ELSE n
      sign == IF n < 0 THEN <<"-">> ELSE <<>>
      frac == a % 100
  IN  sign \o NatStr(a \div 100) \o
      (IF frac = 0 THEN <<>>
       ELSE IF frac % 10 = 0 THEN <<".", Digits[(frac \div 10) + 1]>>
       ELSE <<".", Digits[(frac \div 10) + 1], Digits[(frac % 10) + 1]>>)
PyStr(v) ==
  CASE v.t = "str"  -> v.s
    [] v.t = "num"  -> NumStr(v.n)
    [] v.t = "bool" -> IF v.b THEN <<"T","r","u","e">> ELSE <<"F","a","l","s","e">>
    [] v.t = "null" -> <<"N","o","n","e">>
    [] v.t = "nan"  -> <<"n","a","n">>
    [] v.t = "arr"  -> <<"[">>
    [] v.t = "obj"  -> <<"{">>

\* _taxonomy_status looking up L1 and L2 only
_taxonomy_status_AnyL3(parsed) ==
  LET l == _extract_levels(parsed)
      key == strip(PyStr(l[1])) \o <<Bar>> \o strip(PyStr(l[2])) \o <<Bar>>
  IN  IF l[1] = None \/ l[2] = None THEN "incomplete"
      ELSE IF \A e \in get_taxonomy_set : ~startswith(e, key)
           THEN "not_in_taxonomy"
      ELSE "valid"

\* app.py _taxonomy_status, for a dict: None (incomplete), False, True
_taxonomy_status(parsed) ==
  LET l == _extract_levels(parsed)
      key == strip(PyStr(l[1])) \o <<Bar>> \o strip(PyStr(l[2])) \o <<Bar>>
             \o strip(PyStr(Or(l[3], Empty)))
  IN  IF l[1] = None \/ l[2] = None THEN "incomplete"
      ELSE IF key \notin get_taxonomy_set THEN "not_in_taxonomy"
      ELSE "valid"

\* A Python float: a finite number of hundredths, nan, or an infinity
\* (value is then its sign)
Finite(n) == [exc |-> FALSE, kind |-> "fin", value |-> n]
NaN       == [exc |-> FALSE, kind |-> "nan", value |-> 0]
Inf(sign) == [exc |-> FALSE, kind |-> "inf", value |-> sign]

\* float(raw) of a str, surrounding whitespace ignored: an optional sign,
\* then "nan", "inf" or "infinity" in any letter case, or digits with an
\* optional point and at most two decimals (the texts explored have no
\* exponent, no underscore and no third decimal). Any other text:
\* ValueError.
DigitVal(c) == (CHOOSE i \in 1..10 : Digits[i] = c) - 1
IsDigits(s) == \A i \in 1..Len(s) : \E k \in 1..10 : Digits[k] = s[i]
RECURSIVE NatOf(_)
NatOf(s) == IF s = <<>> THEN 0
            ELSE NatOf(SubSeq(s, 1, Len(s) - 1)) * 10 + DigitVal(s[Len(s)])
FloatOfStr(s0) ==
  LET s     == strip(s0)
      neg   == s # <<>> /\ Head(s) = "-"
      body  == IF s # <<>> /\ Head(s) \in {"-", "+"} THEN Tail(s) ELSE s
      parts == split(body, ".")
      whole == parts[1]
      frac  == IF Len(parts) = 2 THEN parts[2] ELSE <<>>
      ok    == /\ Len(parts) \in {1, 2}
               /\ IsDigits(whole)
               /\ IsDigits(frac)
               /\ whole \o frac # <<>>
               /\ Len(frac) <= 2
      mag   == NatOf(whole) * 100
               + (IF Len(frac) = 1 THEN NatOf(frac) * 10 ELSE NatOf(frac))
  IN  IF lower(body) = <<"n","a","n">> THEN NaN
      ELSE IF lower(body) \in {<<"i","n","f">>, <<"i","n","f","i","n","i","t","y">>}
           THEN Inf(IF neg THEN -1 ELSE 1)
      ELSE IF ~ok THEN [exc |-> TRUE]
      ELSE Finite(IF neg THEN -mag ELSE mag)

\* float(raw): TypeError for None, a list or a dict
Float(raw) ==
  CASE raw.t = "num"  -> Finite(raw.n)
    [] raw.t = "nan"  -> NaN
    [] raw.t = "bool" -> Finite(IF raw.b THEN 100 ELSE 0)
    [] raw.t = "str"  -> FloatOfStr(raw.s)
    [] OTHER -> [exc |-> TRUE]

\* value < n and value > n of a float and a number of hundredths: False for
\* nan
FloatLt(f, n) == \/ f.kind = "fin" /\ f.value < n
                 \/ f.kind = "inf" /\ f.value < 0
FloatGt(f, n) == \/ f.kind = "fin" /\ f.value > n
                 \/ f.kind = "inf" /\ f.value > 0
FloatGe(f, n) == \/ f.kind = "fin" /\ f.value >= n
                 \/ f.kind = "inf" /\ f.value > 0

\* app.py _confidence_value: the float, or None
_confidence_value(parsed) ==
  LET raw == IF parsed.t = "obj" THEN Get(parsed, K_confidence) ELSE None
  IN  IF raw = None THEN None
      ELSE IF Float(raw).exc THEN None
      ELSE IF FloatLt(Float(raw), 0) \/ FloatGt(Float(raw), 100) THEN None
      ELSE IF Float(raw).kind = "nan" THEN JNaN
      ELSE JNum(Float(raw).value)

\* f"{value:.2f}"
Format2f(value) ==
  IF value.t = "nan" THEN <<"n","a","n">>
  ELSE NatStr(value.n \div 100)
         \o <<".", Digits[((value.n % 100) \div 10) + 1], Digits[(value.n % 10) + 1]>>

\* The bounds of the confidence bands, in hundredths
HighFrom   == 80
MediumFrom == 50

\* _confidence_label giving High from Medium's bound on
_confidence_label_OneBand(value) ==
  IF value = None THEN <<"-">>
  ELSE IF value.t = "num" /\ value.n >= MediumFrom
       THEN <<"H","i","g","h"," ","(">> \o Format2f(value) \o <<")">>
  ELSE <<"L","o","w"," ","(">> \o Format2f(value) \o <<")">>

\* app.py _confidence_label
_confidence_label(value) ==
  IF value = None THEN <<"-">>
  ELSE IF value.t = "num" /\ value.n >= HighFrom
       THEN <<"H","i","g","h"," ","(">> \o Format2f(value) \o <<")">>
  ELSE IF value.t = "num" /\ value.n >= MediumFrom
       THEN <<"M","e","d","i","u","m"," ","(">> \o Format2f(value) \o <<")">>
  ELSE <<"L","o","w"," ","(">> \o Format2f(value) \o <<")">>
-----------------------------------------------------------------------------
(* app.py: the orchestration shared by the callers                         *)
(*                                                                         *)
(* A classify_po call is a choice of the environment: a handler is the     *)
(* set of the results it can end with, one for every way the calls it      *)
(* makes can go. T is the set of transport behaviours a call can meet.     *)
(* q carries a request through its handler:                                *)
(*   d_in, s_in  the texts as given      desc, supp  stripped              *)
(*   h           the history before      cache       the cache so far      *)
(*   hit         the key was cached      replies     what the classify_po  *)
(*                                                   calls made so far did *)

MinDescLen == 10
MaxSupplierLen == 80
HistoryLimit == 10

\* What a caller sees of one classify_po call: the exception or the content
Outcome(r) ==
  IF r.raises THEN [raises |-> TRUE]
  ELSE [raises |-> FALSE, content |-> r.content]

ClassifyOutcomes(T) == { Outcome(classify_po(t)) : t \in T }

Called(q, r) == [q EXCEPT !.replies = Append(@, r)]

\* CacheMiss keeping one entry only: storing a parse drops the other keys
CacheMiss_Evict(c, key, r) ==
  IF r.raises
  THEN [raised |-> TRUE, value |-> None, cache |-> c, hit |-> FALSE,
        replies |-> <<r>>]
  ELSE [raised |-> FALSE, value |-> _parse_result(r.content), hit |-> FALSE,
        replies |-> <<r>>,
        cache |-> IF _parse_result(r.content) # None
                  THEN [k \in {key} |-> _parse_result(r.content)]
                  ELSE c]

\* app.py _cached_classify on a miss, given what classify_po did
CacheMiss(c, key, r) ==
  IF r.raises
  THEN [raised |-> TRUE, value |-> None, cache |-> c, hit |-> FALSE,
        replies |-> <<r>>]
  ELSE [raised |-> FALSE, value |-> _parse_result(r.content), hit |-> FALSE,
        replies |-> <<r>>,
        cache |-> IF _parse_result(r.content) # None
                  THEN [k \in DOMAIN c \cup {key} |->
                          IF k = key THEN _parse_result(r.content) ELSE c[k]]
                  ELSE c]

\* app.py _cached_classify: the cached value without a call, else one
\* classify_po call, its parse, and the parse stored unless it is None
CachedOrCall(c, key, T) ==
  IF key \in DOMAIN c
  THEN { [raised |-> FALSE, value |-> c[key], cache |-> c, hit |-> TRUE,
          replies |-> <<>>] }
  ELSE { CacheMiss(c, key, r) : r \in ClassifyOutcomes(T) }

_cached_classify(c, description, supp, T) ==
  UNION { CachedOrCall(c, key, T) : key \in {_cache_key(description, supp)} }

AfterFirst(q, first) ==
  [q EXCEPT !.cache = first.cache, !.hit = first.hit, !.replies = first.replies]

\* list[:n] keeping the whole list
Take_All(s, n) == s

\* list[:n]
Take(s, n) == SubSeq(s, 1, IF Len(s) < n THEN Len(s) ELSE n)

Request(path, q, outcome, parsed) ==
  [path |-> path, desc |-> q.d_in, supp |-> q.s_in, hit |-> q.hit,
   replies |-> q.replies, calls |-> Len(q.replies), outcome |-> outcome,
   parsed |-> parsed]

NoReq ==
  [path |-> "none", desc |-> <<>>, supp |-> <<>>, hit |-> FALSE,
   replies |-> <<>>, calls |-> 0, outcome |-> "none", parsed |-> None]

\* No function is being called on its own
NoCall == [fn |-> "none"]

-----------------------------------------------------------------------------
(* app.py tab_single: the Classify button                                  *)
(*                                                                         *)
(* Outcomes: "rejected" (a warning and st.stop), "failed"                  *)
(* ("Classification failed"), "invalid" ("Invalid model response"),        *)
(* "invalid_schema" ("Invalid model response: Missing fields ..."),        *)
(* "displayed" (levels shown, history item added), "crash" (an exception   *)
(* outside every try: TypeError or AttributeError on a reply's shape).     *)

HistoryItem(q, parsed) ==
  [description |-> q.desc, supplier |-> q.supp,
   l1 |-> _extract_levels(parsed)[1], l2 |-> _extract_levels(parsed)[2],
   l3 |-> _extract_levels(parsed)[3],
   match_quality |-> Get(parsed, K_match_quality),
   confidence |-> _confidence_value(parsed), raw |-> parsed]

SingleResult(q, outcome, parsed) ==
  [req |-> Request("single", q, outcome, parsed),
   cache |-> q.cache,
   history |-> IF outcome = "displayed"
               THEN Take(<<HistoryItem(q, parsed)>> \o q.h, HistoryLimit)
               ELSE q.h]

\* Lines 229-325: the schema check after the retry, the display and the
\* history insert
SingleShow(q, parsed) ==
  IF parsed = None THEN SingleResult(q, "invalid", None)
  ELSE IF _validate_schema(parsed).exc THEN SingleResult(q, "crash", parsed)
  ELSE IF ~_validate_schema(parsed).ok
       THEN SingleResult(q, "invalid_schema", parsed)
  ELSE IF _extract_levels_raises(parsed) THEN SingleResult(q, "crash", parsed)
  ELSE SingleResult(q, "displayed", parsed)

\* SingleRetry without its retry
SingleRetry_NoRetry(q, p1, T) ==
  IF p1 # None /\ _validate_schema(p1).exc
  THEN { SingleResult(q, "crash", p1) }
  ELSE { SingleShow(q, p1) }

\* SingleRetry retrying once more when the retry does not parse either
SingleRetry_Twice(q, p1, T) ==
  IF p1 # None /\ _validate_schema(p1).exc
  THEN { SingleResult(q, "crash", p1) }
  ELSE IF p1 = None \/ ~_validate_schema(p1).ok
  THEN UNION { IF ~r.raises /\ _parse_result(r.content) = None
               THEN { SingleShow(Called(Called(q, r), r2),
                                 IF r2.raises THEN None
                                 ELSE _parse_result(r2.content)) :
                        r2 \in ClassifyOutcomes(T) }
               ELSE { SingleShow(Called(q, r),
                                 IF r.raises THEN None
                                 ELSE _parse_result(r.content)) } :
                 r \in ClassifyOutcomes(T) }
  ELSE { SingleShow(q, p1) }

\* Lines 219-228: the schema check of the first value and the one retry,
\* whose exception is swallowed (parsed = None)
SingleRetry(q, p1, T) ==
  IF p1 # None /\ _validate_schema(p1).exc
  THEN { SingleResult(q, "crash", p1) }
  ELSE IF p1 = None \/ ~_validate_schema(p1).ok
  THEN { SingleShow(Called(q, r),
                    IF r.raises THEN None ELSE _parse_result(r.content)) :
           r \in ClassifyOutcomes(T) }
  ELSE { SingleShow(q, p1) }

\* Lines 191-217: the input checks and the first call
SingleChecked(q, T) ==
  IF \/ q.desc = <<>>
     \/ Len(q.desc) < MinDescLen
     \/ (q.supp # <<>> /\ Len(q.supp) > MaxSupplierLen)
  THEN { SingleResult(q, "rejected", None) }
  ELSE UNION { IF first.raised
               THEN { SingleResult(AfterFirst(q, first), "failed", None) }
               ELSE SingleRetry(AfterFirst(q, first), first.value, T) :
                 first \in _cached_classify(q.cache, q.desc, q.supp, T) }

\* Lines 187-189: po_description.strip(), supplier.strip()
SingleHandler(c, h, d_in, s_in, T) ==
  UNION { SingleChecked([d_in |-> d_in, s_in |-> s_in, desc |-> desc,
                         supp |-> supp, h |-> h, cache |-> c, hit |-> FALSE,
                         replies |-> <<>>], T) :
            desc \in {strip(d_in)}, supp \in {strip(s_in)} }

\* No loop is running: the script waits for a click
Idle == pc \in {"idle", "bulk_done", "eval_done"}

\* Every click reruns the script: what the previous click rendered (results,
\* progress, accuracy) is gone.
Rerun ==
  /\ rows' = <<>>
  /\ idx' = 0
  /\ results' = <<>>
  /\ progress' = <<0, 1>>
  /\ correct' = 0
  /\ total' = 0
  /\ accuracy' = -1

\* The Classify click. The "Retry classification" and "Submit Feedback"
\* buttons live inside this handler's branch: clicking one reruns the script
\* with Classify unpressed, so their bodies never run and are not modelled.
SingleClassify(d_in, s_in, T) ==
  /\ Idle
  /\ \E out \in SingleHandler(cache, history, d_in, s_in, T) :
       /\ cache' = out.cache
       /\ history' = out.history
       /\ req' = out.req
  /\ po_desc' = d_in
  /\ supplier' = s_in
  /\ nReq' = nReq + 1
  /\ Rerun
  /\ pc' = "idle"
  /\ UNCHANGED call

\* The Clear button. Lines 179-180 assign the session-state entries of the
\* two widgets after the widgets were created (lines 162-175). What the
\* framework does with such an assignment is not in the source: either it is
\* accepted and the handler runs to its rerun, or it is refused with an
\* exception (not an AttributeError) that ends the run at line 179, before
\* the history is emptied.
Clear ==
  /\ Idle
  /\ \/ po_desc' = <<>> /\ supplier' = <<>> /\ history' = <<>>
     \/ UNCHANGED <<po_desc, supplier, history>>
  /\ req' = NoReq
  /\ Rerun
  /\ pc' = "idle"
  /\ UNCHANGED <<cache, nReq, call>>

-----------------------------------------------------------------------------
(* app.py tab_bulk: the Classify CSV button                                *)

\* A CSV row is a record of fields, each a str or None (a short line).
\* (row.get(name) or "").strip()
Field(v) == strip(Or(v, Empty).s)

BulkRowOut(desc, supp, status, match_quality, confidence, l1, l2, l3) ==
  [description |-> desc, supplier |-> supp, status |-> status,
   match_quality |-> match_quality, confidence |-> confidence,
   l1 |-> l1, l2 |-> l2, l3 |-> l3]

\* BulkBlank giving up on the file: nothing is appended for the row
BulkBlank_Abort(q, status, parsed) ==
  [req |-> Request("bulk", q, status, parsed),
   cache |-> q.cache,
   skipped |-> status = "missing description",
   append |-> <<>>]

\* results.append of a row without levels. A handler's `append` is what it
\* appends to results: one row, or nothing.
BulkBlank(q, status, parsed) ==
  [req |-> Request("bulk", q, status, parsed),
   cache |-> q.cache,
   skipped |-> status = "missing description",
   append |-> <<BulkRowOut(q.desc, q.supp, status, Empty, Empty,
                           Empty, Empty, Empty)>>]

\* Lines 373-402: the row of a parsed value
BulkRecord(q, parsed) ==
  IF parsed = None THEN BulkBlank(q, "invalid response", None)
  ELSE IF _extract_levels_raises(parsed)
       THEN BulkBlank(q, "error: object has no attribute 'keys'", parsed)
  ELSE [req |-> Request("bulk", q,
                        IF _taxonomy_status(parsed) = "valid"
                        THEN "ok" ELSE "needs review", parsed),
        cache |-> q.cache,
        skipped |-> FALSE,
        append |-> <<BulkRowOut(q.desc, q.supp,
                       IF _taxonomy_status(parsed) = "valid"
                       THEN "ok" ELSE "needs review",
                       Or(Get(parsed, K_match_quality), Empty),
                       IF _confidence_value(parsed) # None
                       THEN _confidence_value(parsed) ELSE Empty,
                       Or(_extract_levels(parsed)[1], Empty),
                       Or(_extract_levels(parsed)[2], Empty),
                       Or(_extract_levels(parsed)[3], Empty))>>]

\* Lines 367-372: the schema check of the first value and the one retry,
\* inside the row's try
BulkRetry(q, p1, T) ==
  IF p1 # None /\ _validate_schema(p1).exc
  THEN { BulkBlank(q, "error: argument is not iterable", p1) }
  ELSE IF p1 = None \/ ~_validate_schema(p1).ok
  THEN { IF r.raises
         THEN BulkBlank(Called(q, r), "error: Model request failed", None)
         ELSE BulkRecord(Called(q, r), _parse_result(r.content)) :
           r \in ClassifyOutcomes(T) }
  ELSE { BulkRecord(q, p1) }

\* BulkChecked classifying a row without description like any other
BulkChecked_NoSkip(q, T) ==
  UNION { IF first.raised
          THEN { BulkBlank(AfterFirst(q, first),
                           "error: Model request failed", None) }
          ELSE BulkRetry(AfterFirst(q, first), first.value, T) :
            first \in _cached_classify(q.cache, q.desc, q.supp, T) }

\* Lines 351-366 and 403-416: the missing-description branch, the first
\* call, and the except of the row's try
BulkChecked(q, T) ==
  IF q.desc = <<>>
  THEN { BulkBlank(q, "missing description", None) }
  ELSE UNION { IF first.raised
               THEN { BulkBlank(AfterFirst(q, first),
                                "error: Model request failed", None) }
               ELSE BulkRetry(AfterFirst(q, first), first.value, T) :
                 first \in _cached_classify(q.cache, q.desc, q.supp, T) }

\* One pass of the loop body on `row`. skipped: the `continue` of the
\* missing-description branch was taken (progress is not updated).
BulkRowHandler(c, row, T) ==
  UNION { BulkChecked([d_in |-> Or(row.description, Empty).s,
                       s_in |-> Or(row.supplier, Empty).s, desc |-> desc,
                       supp |-> supp, h |-> <<>>, cache |-> c, hit |-> FALSE,
                       replies |-> <<>>], T) :
            desc \in {Field(row.description)}, supp \in {Field(row.supplier)} }

Max(a, b) == IF a > b THEN a ELSE b

\* The click: rows = list(reader), results = [], progress = st.progress(0)
BulkStart(file) ==
  /\ Idle
  /\ pc' = "bulk"
  /\ rows' = file
  /\ idx' = 0
  /\ results' = <<>>
  /\ progress' = <<0, 1>>
  /\ correct' = 0
  /\ total' = 0
  /\ accuracy' = -1
  /\ nReq' = nReq + Len(file)
  /\ UNCHANGED <<cache, history, po_desc, supplier, req, call>>

\* One iteration of `for idx, row in enumerate(rows, start=1)`
BulkRow(T) ==
  /\ pc = "bulk"
  /\ idx < Len(rows)
  /\ \E out \in BulkRowHandler(cache, rows[idx + 1], T) :
       /\ results' = results \o out.append
       /\ cache' = out.cache
       /\ req' = out.req
       /\ progress' = IF out.skipped THEN progress
                      ELSE <<idx + 1, Max(Len(rows), 1)>>
  /\ idx' = idx + 1
  /\ UNCHANGED <<history, po_desc, supplier, pc, rows, correct, total,
                 accuracy, nReq, call>>

\* The loop is over: the results are written out as the download
BulkFinish ==
  /\ pc = "bulk"
  /\ idx = Len(rows)
  /\ pc' = "bulk_done"
  /\ UNCHANGED <<cache, history, po_desc, supplier, rows, idx, results,
                 progress, correct, total, accuracy, req, nReq, call>>

-----------------------------------------------------------------------------
(* app.py tab_eval: the Evaluate CSV button                                *)

EvalRowOut(q, p1, p2, p3, match) ==
  [description |-> q.desc, supplier |-> q.supp,
   gold_l1 |-> q.gold[1], gold_l2 |-> q.gold[2], gold_l3 |-> q.gold[3],
   pred_l1 |-> p1, pred_l2 |-> p2, pred_l3 |-> p3, match |-> match]

\* EvalMatch replacing only a null pred_l3 by ""
EvalMatch_NullOnly(l, gold) ==
  /\ l[1] = JStr(gold[1])
  /\ l[2] = JStr(gold[2])
  /\ (IF l[3] = None THEN Empty ELSE l[3]) = JStr(gold[3])

\* pred_l1 == gold_l1 and pred_l2 == gold_l2 and (pred_l3 or "") == gold_l3
EvalMatch(l, gold) ==
  /\ l[1] = JStr(gold[1])
  /\ l[2] = JStr(gold[2])
  /\ Or(l[3], Empty) = JStr(gold[3])

\* results.append of an "error" row (lines 551-564 and 587-600)
EvalError(q, parsed) ==
  [req |-> Request("eval", q, "error", parsed),
   skipped |-> FALSE, correct |-> FALSE,
   append |-> <<EvalRowOut(q, Empty, Empty, Empty, "error")>>]

\* Lines 551-586: the row of a parsed value
EvalRecord(q, parsed) ==
  IF parsed = None THEN EvalError(q, None)
  ELSE IF _extract_levels_raises(parsed) THEN EvalError(q, parsed)
  ELSE [req |-> Request("eval", q,
                        IF EvalMatch(_extract_levels(parsed), q.gold)
                        THEN "yes" ELSE "no", parsed),
        skipped |-> FALSE,
        correct |-> EvalMatch(_extract_levels(parsed), q.gold),
        append |-> <<EvalRowOut(q, Or(_extract_levels(parsed)[1], Empty),
                       Or(_extract_levels(parsed)[2], Empty),
                       Or(_extract_levels(parsed)[3], Empty),
                       IF EvalMatch(_extract_levels(parsed), q.gold)
                       THEN "yes" ELSE "no")>>]

\* Lines 548-550: the retry, taken only when the first parse is None
EvalRetry(q, p1, T) ==
  IF p1 = None
  THEN { IF r.raises THEN EvalError(Called(q, r), None)
         ELSE EvalRecord(Called(q, r), _parse_result(r.content)) :
           r \in ClassifyOutcomes(T) }
  ELSE { EvalRecord(q, p1) }

\* Lines 542-547: the skip of a row without description (before total is
\* counted), and the first call; the evaluation never reads the cache
EvalChecked(q, T) ==
  IF q.desc = <<>>
  THEN { [req |-> Request("eval", q, "skipped", None),
          skipped |-> TRUE, correct |-> FALSE, append |-> <<>>] }
  ELSE UNION { IF r.raises THEN { EvalError(Called(q, r), None) }
               ELSE EvalRetry(Called(q, r), _parse_result(r.content), T) :
                 r \in ClassifyOutcomes(T) }

\* One pass of the loop body on `row`
EvalRowHandler(row, T) ==
  UNION { EvalChecked([d_in |-> Or(row.description, Empty).s,
                       s_in |-> Or(row.supplier, Empty).s, desc |-> desc,
                       supp |-> supp, h |-> <<>>, cache |-> <<>>,
                       hit |-> FALSE, replies |-> <<>>,
                       gold |-> <<Field(row.L1), Field(row.L2), Field(row.L3)>>],
                      T) :
            desc \in {Field(row.description)}, supp \in {Field(row.supplier)} }

\* (correct / total) * 100 as f"{accuracy:.1f}" shows it: in tenths of a
\* percent, rounded to the nearest; 0 when total is 0
Accuracy(c, n) ==
  IF n = 0 THEN 0 ELSE ((c * 1000 * 2) + n) \div (2 * n)

EvalStart(file) ==
  /\ Idle
  /\ pc' = "eval"
  /\ rows' = file
  /\ idx' = 0
  /\ results' = <<>>
  /\ correct' = 0
  /\ total' = 0
  /\ accuracy' = -1
  /\ progress' = <<0, 1>>
  /\ nReq' = nReq + Len(file)
  /\ UNCHANGED <<cache, history, po_desc, supplier, req, call>>

EvalRow(T) ==
  /\ pc = "eval"
  /\ idx < Len(rows)
  /\ \E out \in EvalRowHandler(rows[idx + 1], T) :
       /\ req' = out.req
       /\ total' = IF out.skipped THEN total ELSE total + 1
       /\ correct' = IF out.correct THEN correct + 1 ELSE correct
       /\ results' = results \o out.append
       /\ progress' = IF out.skipped THEN progress
                      ELSE <<idx + 1, Max(Len(rows), 1)>>
  /\ idx' = idx + 1
  /\ UNCHANGED <<cache, history, po_desc, supplier, pc, rows, accuracy, nReq, call>>

\* accuracy = (correct / total) * 100 if total else 0
EvalFinish ==
  /\ pc = "eval"
  /\ idx = Len(rows)
  /\ pc' = "eval_done"
  /\ accuracy' = Accuracy(correct, total)
  /\ UNCHANGED <<cache, history, po_desc, supplier, rows, idx, results,
                 progress, correct, total, req, nReq, call>>

-----------------------------------------------------------------------------
(* The session                                                             *)

Init ==
  /\ cache = <<>>
  /\ history = <<>>
  /\ po_desc = <<>>
  /\ supplier = <<>>
  /\ pc = "idle"
  /\ rows = <<>>
  /\ idx = 0
  /\ results = <<>>
  /\ progress = <<0, 1>>
  /\ correct = 0
  /\ total = 0
  /\ accuracy = -1
  /\ req = NoReq
  /\ nReq = 0
  /\ call = NoCall

\* Bounds of the exploration
MaxRequests == 2
MaxRows == 2

\* Texts typed by the user or read from a CSV
DescA     == <<"h","v","a","c"," ","r","e","p","a","i","r">>
DescAVar  == <<" ","H","V","A","C"," ","R","e","p","a","i","r"," ">>
DescB     == <<"w","a","t","e","r"," ","b","i","l","l"," ","7">>
DescShort == <<"h","v","a","c">>
DescBlank == <<" ">>
SuppA     == <<"A","c","m","e">>
SuppAVar  == <<" ","A","C","M","E"," ">>
SuppNone  == <<>>
SuppLong  == Repeat("x", MaxSupplierLen + 1)

\* Values a model reply carries
V_IT       == JStr(<<"I","T">>)
V_Hardware == JStr(<<"H","a","r","d","w","a","r","e">>)
V_Laptop   == JStr(<<"L","a","p","t","o","p">>)
V_HR       == JStr(<<"H","R">>)
V_Training == JStr(<<"T","r","a","i","n","i","n","g">>)

\* Replies of the model: not JSON at all; two schema-complete objects (the
\* second with a null L3); an object without L3; a JSON number
TextBad  == Text(FALSE, None)
TextOk1  == Text(TRUE, JObj(<<<<K_L1, V_IT>>, <<K_L2, V_Hardware>>, <<K_L3, V_Laptop>>>>))
TextOk2  == Text(TRUE, JObj(<<<<K_L1, V_HR>>, <<K_L2, V_Training>>, <<K_L3, None>>>>))
TextInc  == Text(TRUE, JObj(<<<<K_L1, V_IT>>, <<K_L2, V_Hardware>>>>))
TextNum  == Text(TRUE, JNum(700))

\* The replies explored by Spec (TextOk2 is a reply of the evaluation runs)
Texts == {TextBad, TextOk1, TextInc, TextNum}

\* What the two transport attempts of one classify_po call do
Transports ==
  { <<AttemptGives(t), AttemptFails>> : t \in Texts }
    \cup { <<AttemptFails, AttemptGives(TextOk1)>>, <<AttemptFails, AttemptFails>> }

SingleInputs ==
  { <<DescA, SuppA>>, <<DescAVar, SuppAVar>>, <<DescB, SuppNone>>,
    <<DescShort, SuppNone>>, <<DescBlank, SuppA>>, <<DescA, SuppLong>> }

BulkRows ==
  { [description |-> JStr(DescA), supplier |-> JStr(SuppA)],
    [description |-> JStr(DescAVar), supplier |-> JStr(SuppAVar)],
    [description |-> JStr(DescShort), supplier |-> None],
    [description |-> JStr(DescBlank), supplier |-> JStr(SuppA)] }

EvalRows ==
  { [description |-> JStr(DescA), supplier |-> JStr(SuppA),
     L1 |-> V_IT, L2 |-> V_Hardware, L3 |-> V_Laptop],
    [description |-> JStr(DescB), supplier |-> None,
     L1 |-> V_HR, L2 |-> V_Training, L3 |-> None],
    [description |-> None, supplier |-> JStr(SuppA),
     L1 |-> V_IT, L2 |-> V_Hardware, L3 |-> V_Laptop] }

\* Sequences over S of length at most n
SeqsUpTo(S, n) == UNION { [1..k -> S] : k \in 0..n }

Next ==
  \/ \E in \in SingleInputs :
       nReq < MaxRequests /\ SingleClassify(in[1], in[2], Transports)
  \/ Clear
  \/ \E file \in SeqsUpTo(BulkRows, MaxRows) :
       nReq + Len(file) <= MaxRequests /\ BulkStart(file)
  \/ BulkRow(Transports)
  \/ BulkFinish
  \/ \E file \in SeqsUpTo(EvalRows, MaxRows) :
       nReq + Len(file) <= MaxRequests /\ EvalStart(file)
  \/ EvalRow(Transports)
  \/ EvalFinish

Spec == Init /\ [][Next]_vars

-----------------------------------------------------------------------------
(* One evaluation of a labelled file, for the accuracy                     *)

MaxEvalRows == 4

\* A schema-complete object whose L3 is the number 0
TextZero == Text(TRUE, JObj(<<<<K_L1, V_HR>>, <<K_L2, V_Training>>, <<K_L3, JNum(0)>>>>))

EvalTransports ==
  { <<AttemptGives(t), AttemptFails>> : t \in {TextOk1, TextOk2, TextZero} }
    \cup { <<AttemptFails, AttemptFails>> }

NextEval ==
  \/ \E file \in SeqsUpTo(EvalRows, MaxEvalRows) :
       nReq = 0 /\ EvalStart(file)
  \/ EvalRow(EvalTransports)
  \/ EvalFinish

SpecEval == Init /\ [][NextEval]_vars

-----------------------------------------------------------------------------
(* The functions of app.py called on their own, on the values a reply can  *)
(* carry                                                                   *)

\* A key that the mapping does not have
Absent == [t |-> "absent"]

Opt(k, v) == IF v = Absent THEN <<>> ELSE <<<<k, v>>>>

\* The dict {"L1": l1, "L2": l2, "L3": l3}, without the keys that are Absent
Mapping(l1, l2, l3) == JObj(Opt(K_L1, l1) \o Opt(K_L2, l2) \o Opt(K_L3, l3))

V_Utilities == JStr(<<"U","t","i","l","i","t","i","e","s">>)
V_Power     == JStr(<<"P","o","w","e","r">>)
V_ITPadded  == JStr(<<" ","I","T"," ">>)
V_LaptopPadded == JStr(<<"L","a","p","t","o","p"," ">>)
V_itLower   == JStr(<<"i","t">>)

L1Values == {Absent, None, Empty, V_IT, V_ITPadded, V_itLower, V_HR, V_Utilities}
L2Values == {Absent, None, Empty, V_Hardware, V_Training, V_Power}
L3Values == {Absent, None, Empty, JNum(0), V_Laptop, V_LaptopPadded, V_Power}

Mappings ==
  { Mapping(l1, l2, l3) : l1 \in L1Values, l2 \in L2Values, l3 \in L3Values }

\* fn(arg) was called and gave out
Returned(fn, arg, out) == [fn |-> fn, arg |-> arg, out |-> out]

CallOnly ==
  UNCHANGED <<cache, history, po_desc, supplier, pc, rows, idx, results,
              progress, correct, total, accuracy, req, nReq>>

\* One call per run, from the fresh session
TaxonomyStatus(parsed) ==
  /\ call = NoCall
  /\ call' = Returned("_taxonomy_status", parsed, _taxonomy_status(parsed))
  /\ CallOnly

ValidateSchema(parsed) ==
  /\ call = NoCall
  /\ call' = Returned("_validate_schema", parsed, _validate_schema(parsed))
  /\ CallOnly

\* Values of the confidence field: every number of hundredths from
\* -ConfMargin to 100 + ConfMargin, texts, booleans, null, NaN, a list, and
\* no field at all
ConfMargin == 60

ConfidenceValues ==
  { JNum(n) : n \in (0 - ConfMargin)..(100 + ConfMargin) }
    \cup { JStr(<<"0",".","8">>), JStr(<<" ","0",".","7","9"," ">>),
           JStr(<<".","5">>), JStr(<<"1",".","5">>), JStr(<<"-","0",".","1">>),
           JStr(<<"h","i","g","h">>), JStr(<<>>), JStr(<<"n","a","n">>),
           JStr(<<"i","n","f">>), JBool(TRUE), JBool(FALSE), None, JNaN,
           JArr(<<>>), Absent }

\* The label shown for a reply whose confidence field is raw
ConfidenceLabel(raw) ==
  /\ call = NoCall
  /\ call' = Returned("_confidence_label", raw,
                      _confidence_label(_confidence_value(JObj(Opt(K_confidence, raw)))))
  /\ CallOnly

\* Mappings with two keys for level 1 that differ in case or padding, in
\* either order, next to plain L2 and L3
K_L1Padded == <<" ","L","1"," ">>
L1Keys == {K_L1, K_l1, K_L1Padded}
L1Given == {None, V_IT, V_HR}

DupMappings ==
  { JObj(<<<<d[1], d[3]>>, <<d[2], d[4]>>, <<K_L2, V_Hardware>>, <<K_L3, V_Laptop>>>>) :
      d \in { e \in L1Keys \X L1Keys \X L1Given \X L1Given : e[1] # e[2] } }

ExtractLevels(parsed) ==
  /\ call = NoCall
  /\ call' = Returned("_extract_levels", parsed, _extract_levels(parsed))
  /\ CallOnly

NextFunctions ==
  \/ \E parsed \in Mappings : TaxonomyStatus(parsed)
  \/ \E parsed \in Mappings : ValidateSchema(parsed)
  \/ \E raw \in ConfidenceValues : ConfidenceLabel(raw)
  \/ \E parsed \in DupMappings \cup Mappings : ExtractLevels(parsed)

SpecFunctions == Init /\ [][NextFunctions]_vars

-----------------------------------------------------------------------------
(* Single requests answered with replies of various shapes                 *)

\* The keys in lower case; "L1" and "l1" side by side, in both orders; a
\* JSON array; a JSON string
TextLower == Text(TRUE, JObj(<<<<K_l1, V_IT>>, <<K_l2, V_Hardware>>, <<K_l3, V_Laptop>>>>))
TextDup   == Text(TRUE, JObj(<<<<K_L1, V_IT>>, <<K_l1, V_HR>>, <<K_L2, V_Hardware>>, <<K_L3, V_Laptop>>>>))
TextDupRev == Text(TRUE, JObj(<<<<K_l1, V_HR>>, <<K_L1, V_IT>>, <<K_L2, V_Hardware>>, <<K_L3, V_Laptop>>>>))
TextArr   == Text(TRUE, JArr(<<JStr(K_L1), JStr(K_L2), JStr(K_L3)>>))
TextStr   == Text(TRUE, JStr(K_L1 \o K_L2 \o K_L3))

ShapeTexts == {TextOk1, TextLower, TextDup, TextNum, TextArr, TextStr}

ShapeTransports == { <<AttemptGives(t), AttemptFails>> : t \in ShapeTexts }

ShapeInputs == { <<DescA, SuppA>>, <<DescB, SuppNone>> }

NextShapes ==
  \/ \E in \in ShapeInputs :
       nReq < MaxRequests /\ SingleClassify(in[1], in[2], ShapeTransports)
  \/ Clear

SpecShapes == Init /\ [][NextShapes]_vars

-----------------------------------------------------------------------------
(* A long session of single requests, for the history                      *)

MaxHistoryRequests == 11

HistoryInputs == { <<DescA, SuppA>>, <<DescB, SuppNone>>, <<DescShort, SuppNone>> }

HistoryTransports ==
  { <<AttemptGives(TextOk1), AttemptFails>>, <<AttemptFails, AttemptFails>> }

NextHistory ==
  \/ \E in \in HistoryInputs :
       nReq < MaxHistoryRequests
         /\ SingleClassify(in[1], in[2], HistoryTransports)
  \/ Clear

SpecHistory == Init /\ [][NextHistory]_vars

-----------------------------------------------------------------------------
(* classifier.py classify_po, statement by statement. The frame of the one *)
(* call is kept in call: attempt is the loop variable, at the statement    *)
(* the call is at, log the create calls and sleeps made so far, in order.  *)

\* classifier.py line 42: the delay follows a failure of the first attempt
SleepsAfter_Always(attempt) == TRUE

SleepsAfter(attempt) == attempt = 0

CollabTexts ==
  {TextBad, TextOk1, TextOk2, TextInc, TextNum, TextLower, TextArr, TextStr}

CollabOutcomes == {AttemptFails} \cup { AttemptGives(t) : t \in CollabTexts }

\* What the attempts of one call would meet, one outcome per attempt
CollabTransports == { <<a, b>> : a \in CollabOutcomes, b \in CollabOutcomes }

InCollab(at) == call.fn = "classify_po" /\ call.at = at

\* line 19-28: the call starts, last_error = None
CollabStart(transport) ==
  /\ call = NoCall
  /\ call' = [fn |-> "classify_po", transport |-> transport, attempt |-> 0,
              at |-> "try", log |-> <<>>, last_error |-> FALSE, out |-> None]
  /\ CallOnly

\* lines 30-41: client.chat.completions.create answers (return its content)
\* or raises (last_error = exc)
CollabTry ==
  /\ InCollab("try")
  /\ call' =
       IF call.transport[call.attempt + 1].fails
       THEN [call EXCEPT !.log = Append(@, "create"), !.last_error = TRUE,
                         !.at = "except"]
       ELSE [call EXCEPT !.log = Append(@, "create"), !.at = "returned",
                         !.out = [raises |-> FALSE,
                                  content |-> call.transport[call.attempt + 1].content]]
  /\ CallOnly

\* lines 42-45: `if attempt == 0` sleep, else break
CollabExcept ==
  /\ InCollab("except")
  /\ call' = [call EXCEPT !.at = IF SleepsAfter(call.attempt) THEN "sleep"
                                 ELSE "raise"]
  /\ CallOnly

\* line 43, then line 29 again: time.sleep(0.5) returns and the loop takes
\* the next attempt of range(2), or falls out of the loop
CollabSleep ==
  /\ InCollab("sleep")
  /\ call' = [call EXCEPT !.log = Append(@, "sleep"),
                          !.attempt = @ + 1,
                          !.at = IF call.attempt + 1 < Attempts THEN "try"
                                 ELSE "raise"]
  /\ CallOnly

\* line 47: raise RuntimeError
CollabRaise ==
  /\ InCollab("raise")
  /\ call' = [call EXCEPT !.at = "raised", !.out = [raises |-> TRUE]]
  /\ CallOnly

CollabStep == CollabTry \/ CollabExcept \/ CollabSleep \/ CollabRaise

NextCollab ==
  \/ \E transport \in CollabTransports : CollabStart(transport)
  \/ CollabTry
  \/ CollabExcept
  \/ CollabSleep
  \/ CollabRaise

SpecCollab == Init /\ [][NextCollab]_vars

\* The call is one thread running sequential code: a statement that can run
\* does run (a create call answers or raises, the sleep returns)
FairCollab == SpecCollab /\ WF_vars(CollabStep)

-----------------------------------------------------------------------------
(* What a reply of the collaborator is                                     *)

\* The reply is text that does not decode as JSON
Malformed(r) == ~r.raises /\ r.content.t = "text" /\ ~r.content.wf

\* A mapping with the keys L1, L2 and L3
SchemaComplete(v) ==
  v.t = "obj" /\ HasKey(v, K_L1) /\ HasKey(v, K_L2) /\ HasKey(v, K_L3)

\* The reply is JSON text of a schema-complete mapping
ValidReply(r) ==
  ~r.raises /\ r.content.t = "text" /\ r.content.wf
  /\ SchemaComplete(r.content.doc)

\* The reply is JSON text of a mapping that lacks a required key
IncompleteReply(r) ==
  ~r.raises /\ r.content.t = "text" /\ r.content.wf
  /\ r.content.doc.t = "obj" /\ ~SchemaComplete(r.content.doc)

\* The request ended with a classification: displayed, a bulk row with
\* levels, an evaluated row
Classified == {"displayed", "ok", "needs review", "yes", "no"}

\* The request went through a handler and was not turned away before any
\* classification (input warning, row without description)
Handled ==
  req.path \in {"single", "bulk", "eval"}
  /\ req.outcome \notin {"rejected", "missing description", "skipped"}

-----------------------------------------------------------------------------
(* C1: in the single, bulk and evaluation paths, a request whose key is    *)
(* not cached and whose first reply does not decode as JSON calls the      *)
(* collaborator exactly twice, and when the second reply is valid          *)
(* schema-complete JSON the request ends classified with the parse of the  *)
(* second reply as its result.                                             *)
C1_RetryAfterMalformed ==
  (Handled /\ ~req.hit /\ req.calls >= 1 /\ Malformed(req.replies[1]))
    => /\ req.calls = 2
       /\ ValidReply(req.replies[2])
            => /\ req.parsed = req.replies[2].content.doc
               /\ req.outcome \in Classified

C1_Witness ==
  /\ req.path = "single"
  /\ ~req.hit
  /\ req.calls = 2
  /\ Malformed(req.replies[1])
  /\ ValidReply(req.replies[2])
  /\ req.outcome = "displayed"
  /\ history # <<>>
  /\ history[1].raw = req.replies[2].content.doc

(* C2: for every sequence of replies a request calls the collaborator at   *)
(* most twice; when both calls return text that does not decode, the       *)
(* result is null and the request ends as an invalid response (single:     *)
(* "Invalid model response"; bulk: "invalid response"; evaluation: an      *)
(* "error" row).                                                           *)
C2_AtMostTwoCalls ==
  /\ req.calls <= 2
  /\ (req.calls = 2 /\ Malformed(req.replies[1]) /\ Malformed(req.replies[2]))
       => /\ req.parsed = None
          /\ req.outcome \in {"invalid", "invalid response", "error"}

C2_Witness ==
  /\ req.path = "single"
  /\ req.calls = 2
  /\ Malformed(req.replies[1])
  /\ Malformed(req.replies[2])
  /\ req.outcome = "invalid"
  /\ req.parsed = None

-----------------------------------------------------------------------------
\* The step is a request: a Classify click, or one row of a bulk or
\* evaluation file
NewRequest ==
  \/ pc' = "idle" /\ nReq' = nReq + 1
  \/ idx' = idx + 1

\* The cache key of the last request
KeyOf(r) == _cache_key(r.desc, r.supp)

\* The request made at least one call and its last reply is r
LastReply(r) == r.replies[r.calls]

(* C3: when a request that missed the cache got valid schema-complete JSON *)
(* as its first reply, and the next request has a (description, supplier)  *)
(* that differs at most in surrounding whitespace and letter case (the     *)
(* same cache key), the next request calls the collaborator zero times and *)
(* returns the same parsed result.                                         *)
C3_SameKeyOneCall ==
  [][ ( /\ Handled /\ ~req.hit /\ req.calls = 1 /\ ValidReply(req.replies[1])
        /\ NewRequest
        /\ Handled'
        /\ KeyOf(req') = KeyOf(req) )
      => (req'.calls = 0 /\ req'.parsed = req.parsed) ]_vars

(* C4: every value stored in the cache is a mapping with the keys L1, L2   *)
(* and L3.                                                                 *)
C4_CacheSchemaValid ==
  \A k \in DOMAIN cache : SchemaComplete(cache[k])

(* C5: after a request whose last reply (first call or retry) is valid     *)
(* schema-complete JSON, the cache holds the parse of that reply under the *)
(* request's key.                                                          *)
C5_WriteThrough ==
  (Handled /\ req.calls >= 1 /\ ValidReply(LastReply(req)))
    => /\ KeyOf(req) \in DOMAIN cache
       /\ cache[KeyOf(req)] = LastReply(req).content.doc

\* The outcomes that report a transport failure: "Classification failed",
\* the bulk row's "error: Model request failed", the evaluation's error row
TransportFailure == {"failed", "error: Model request failed", "error"}

(* C6: when a call made for a request raises a transport error, first call *)
(* or retry, that call is the request's last, the request ends in the      *)
(* transport-failure outcome and the cache is as it was before the         *)
(* request.                                                                *)
C6_TransportErrorSurfaced ==
  [][ ( /\ NewRequest
        /\ Handled'
        /\ \E i \in 1..req'.calls : req'.replies[i].raises )
      => /\ LastReply(req').raises
         /\ req'.outcome \in TransportFailure
         /\ cache' = cache ]_vars

(* C7: in the single, bulk and evaluation paths, a request that missed the *)
(* cache calls the collaborator exactly twice when its first reply is a    *)
(* mapping lacking L1, L2 or L3, and exactly once when its first reply is  *)
(* schema-complete.                                                        *)
C7_RetryOnIncomplete ==
  (Handled /\ ~req.hit /\ req.calls >= 1)
    => /\ IncompleteReply(req.replies[1]) => req.calls = 2
       /\ ValidReply(req.replies[1]) => req.calls = 1

\* The request retried: a second call, or a call after a cache hit
Retried == req.calls = 2 \/ (req.hit /\ req.calls = 1)

(* C8: when the reply to the retry is still a mapping lacking L1, L2 or    *)
(* L3, a single request ends in the schema error (nothing displayed, no    *)
(* history item) and a bulk row is neither "ok" nor "needs review" and has *)
(* empty l1, l2 and l3.                                                    *)
C8_IncompleteAfterRetry ==
  (Handled /\ Retried /\ IncompleteReply(LastReply(req)))
    => /\ req.path = "single" => req.outcome = "invalid_schema"
       /\ req.path = "bulk"
            => /\ req.outcome \notin {"ok", "needs review"}
               /\ results[Len(results)].l1 = Empty
               /\ results[Len(results)].l2 = Empty
               /\ results[Len(results)].l3 = Empty

-----------------------------------------------------------------------------
\* The rows among the first n of file that the evaluation does not skip
RECURSIVE EvalKept(_, _)
EvalKept(file, n) ==
  IF n = 0 THEN <<>>
  ELSE EvalKept(file, n - 1)
         \o (IF Field(file[n].description) = <<>> THEN <<>> ELSE <<file[n]>>)

\* The last row appended to results
LastRow == results[Len(results)]

(* C9: a bulk file yields exactly one result per input row, in input       *)
(* order, and an evaluation file exactly one result per row with non-empty *)
(* description, in input order; a row whose call raised or whose reply did *)
(* not parse is recorded with an error or invalid status; and the loop     *)
(* ends only after the last row.                                           *)
C9_OneResultPerRow ==
  /\ pc \in {"bulk", "bulk_done"}
       => /\ Len(results) = idx
          /\ \A i \in 1..idx :
               /\ results[i].description = Field(rows[i].description)
               /\ results[i].supplier = Field(rows[i].supplier)
          /\ (idx >= 1 /\ Handled /\ req.calls >= 1)
               => /\ LastReply(req).raises
                       => LastRow.status = "error: Model request failed"
                  /\ Malformed(LastReply(req))
                       => LastRow.status = "invalid response"
  /\ pc \in {"eval", "eval_done"}
       => /\ Len(results) = Len(EvalKept(rows, idx))
          /\ \A i \in 1..Len(results) :
               /\ results[i].description
                    = Field(EvalKept(rows, idx)[i].description)
               /\ results[i].gold_l1 = Field(EvalKept(rows, idx)[i].L1)
          /\ (idx >= 1 /\ Handled /\ req.calls >= 1
              /\ (LastReply(req).raises \/ Malformed(LastReply(req))))
               => LastRow.match = "error"
  /\ pc \in {"bulk_done", "eval_done"} => idx = Len(rows)

C9_Witness ==
  /\ pc = "bulk_done"
  /\ Len(rows) = 2
  /\ Len(results) = 2
  /\ results[1].status = "error: Model request failed"
  /\ results[2].status = "ok"

-----------------------------------------------------------------------------
\* The number of rows of results reported as a match
Matches == Cardinality({ i \in 1..Len(results) : results[i].match = "yes" })

\* The last evaluated row is reported as a match exactly when `same` holds
\* of its predicted levels and its gold labels
RowJudged(same) ==
  (pc \in {"eval", "eval_done"} /\ idx >= 1 /\ Handled /\ req.path = "eval")
    => (LastRow.match = "yes"
          <=> /\ req.parsed # None
              /\ ~_extract_levels_raises(req.parsed)
              /\ same)

\* The counters and the accuracy: total counts the rows with non-empty
\* description, correct the rows reported as a match; the accuracy, in
\* tenths of a percent, is correct / total * 100 to the nearest tenth, and
\* 0 when total is 0
Counted ==
  /\ pc \in {"eval", "eval_done"}
       => /\ total = Len(EvalKept(rows, idx))
          /\ total = Len(results)
          /\ correct = Matches
          /\ 0 <= correct /\ correct <= total
  /\ pc = "eval_done"
       => /\ total = 0 => accuracy = 0
          /\ total > 0
               => /\ 2 * total * accuracy - 2000 * correct <= total
                  /\ 2000 * correct - 2 * total * accuracy <= total
          /\ (total = 4 /\ correct = 3) => accuracy = 750

\* The predicted levels of the last request
Pred == _extract_levels(req.parsed)

(* C10: accuracy = correct / total * 100; total counts every row with      *)
(* non-empty description, rows that ended in error included; correct       *)
(* counts exactly the rows whose predicted L1 equals gold L1, predicted L2 *)
(* equals gold L2 and predicted L3, with null or any other falsy value     *)
(* (0, false, "", [], {}) replaced by the empty string, equals gold L3; 0  *)
(* <= correct <= total, 3 matches out of 4 rows give 75.0, total 0 gives   *)
(* 0.                                                                      *)
C10_Accuracy ==
  /\ Counted
  /\ RowJudged(/\ Pred[1] = JStr(Field(rows[idx].L1))
               /\ Pred[2] = JStr(Field(rows[idx].L2))
               /\ (IF Truthy(Pred[3]) THEN Pred[3] ELSE Empty)
                    = JStr(Field(rows[idx].L3)))

C10_Witness ==
  /\ pc = "eval_done"
  /\ total = 4
  /\ correct = 3
  /\ accuracy = 750
  /\ \E i \in 1..4 : results[i].match = "error"
  /\ req.parsed = TextZero.doc
  /\ LastRow.match = "yes"

\* C10 as stated: only a null predicted L3 is replaced by the empty string
C10_NullOnly ==
  /\ Counted
  /\ RowJudged(/\ Pred[1] = JStr(Field(rows[idx].L1))
               /\ Pred[2] = JStr(Field(rows[idx].L2))
               /\ (IF Pred[3] = None THEN Empty ELSE Pred[3])
                    = JStr(Field(rows[idx].L3)))


-----------------------------------------------------------------------------
\* (l1, l2, l3) is a row of the taxonomy table
InTable(l1, l2, l3) ==
  \E i \in 1..Len(get_taxonomy_rows) :
    /\ get_taxonomy_rows[i].L1 = l1
    /\ get_taxonomy_rows[i].L2 = l2
    /\ get_taxonomy_rows[i].L3 = l3

(* C11: for every parsed mapping, _taxonomy_status gives "incomplete" when *)
(* L1 or L2 is null or absent, whether or not the schema is complete;      *)
(* otherwise it gives "valid" exactly when (trim(L1), trim(L2), trim(L3 or *)
(* "")) is a row of the taxonomy table, and "not in taxonomy" for every    *)
(* other triple: an empty L3 matches only rows whose L3 is empty.          *)
C11_TaxonomyStatus ==
  call.fn = "_taxonomy_status"
    => LET l == _extract_levels(call.arg)
       IN  IF l[1] = None \/ l[2] = None
           THEN call.out = "incomplete"
           ELSE /\ call.out \in {"valid", "not_in_taxonomy"}
                /\ call.out = "valid"
                     <=> InTable(strip(PyStr(l[1])), strip(PyStr(l[2])),
                                 strip(PyStr(Or(l[3], Empty))))
                /\ (call.out = "valid" /\ Or(l[3], Empty) = Empty)
                     => \E i \in 1..Len(get_taxonomy_rows) :
                          /\ get_taxonomy_rows[i].L1 = strip(PyStr(l[1]))
                          /\ get_taxonomy_rows[i].L2 = strip(PyStr(l[2]))
                          /\ get_taxonomy_rows[i].L3 = <<>>

C11_Witness ==
  /\ call.fn = "_taxonomy_status"
  /\ call.arg = Mapping(V_HR, V_Training, None)
  /\ call.out = "valid"

-----------------------------------------------------------------------------
\* str.upper of a key
UpperChar(c) ==
  IF \E i \in 1..26 : LowerAlpha[i] = c
  THEN UpperAlpha[CHOOSE i \in 1..26 : LowerAlpha[i] = c]
  ELSE c
upper(s) == [i \in 1..Len(s) |-> UpperChar(s[i])]

\* The mapping with every key in upper case
UpperKeys(m) ==
  JObj([i \in 1..Len(m.kv) |-> <<upper(m.kv[i][1]), m.kv[i][2]>>])

\* A mapping whose keys stay distinct when put in upper case
DistinctKeys(m) ==
  /\ m.t = "obj"
  /\ \A i, j \in 1..Len(m.kv) :
       upper(m.kv[i][1]) = upper(m.kv[j][1]) => i = j

\* The first reply of the last request is JSON text of such a mapping
FirstMapping ==
  /\ Handled /\ ~req.hit /\ req.calls >= 1
  /\ ~req.replies[1].raises
  /\ req.replies[1].content.wf
  /\ DistinctKeys(req.replies[1].content.doc)

(* C12: a first reply whose keys are l1/l2/l3 in any letter case is        *)
(* handled as the reply with the keys L1/L2/L3 and the same values: the    *)
(* same extracted levels, the same schema verdict, the same taxonomy       *)
(* outcome, and, when the upper-case reply is schema-complete, one         *)
(* collaborator call and a displayed classification.                       *)
C12_KeyCaseIgnored ==
  FirstMapping
    => LET m == req.replies[1].content.doc
       IN  /\ _extract_levels(m) = _extract_levels(UpperKeys(m))
           /\ _taxonomy_status(m) = _taxonomy_status(UpperKeys(m))
           /\ _validate_schema(m).ok = _validate_schema(UpperKeys(m)).ok
           /\ SchemaComplete(UpperKeys(m))
                => (req.calls = 1 /\ req.outcome = "displayed")

-----------------------------------------------------------------------------
\* The keys among L1, L2, L3 that the mapping lacks, in that order
Lacking(m) ==
  (IF HasKey(m, K_L1) THEN <<>> ELSE <<K_L1>>)
    \o (IF HasKey(m, K_L2) THEN <<>> ELSE <<K_L2>>)
    \o (IF HasKey(m, K_L3) THEN <<>> ELSE <<K_L3>>)

(* C13: _validate_schema reports a mapping invalid exactly when at least   *)
(* one of the keys L1, L2, L3 is absent from it, with the message "Missing *)
(* fields: " followed by the absent keys in the order L1, L2, L3; presence *)
(* is what counts, so a mapping with the three keys is valid whatever      *)
(* their values (null, empty).                                             *)
C13_SchemaVerdict ==
  call.fn = "_validate_schema"
    => /\ ~call.out.exc
       /\ call.out.ok <=> Lacking(call.arg) = <<>>
       /\ call.out.ok => call.out.msg = <<"O","K">>
       /\ ~call.out.ok
            => call.out.msg
                 = <<"M","i","s","s","i","n","g"," ","f","i","e","l","d","s",":"," ">>
                     \o (CASE Len(Lacking(call.arg)) = 1 -> Lacking(call.arg)[1]
                           [] Len(Lacking(call.arg)) = 2
                                -> Lacking(call.arg)[1] \o <<",", " ">>
                                     \o Lacking(call.arg)[2]
                           [] OTHER -> <<"L","1",","," ","L","2",","," ","L","3">>)

C13_Witness ==
  /\ call.fn = "_validate_schema"
  /\ call.arg = Mapping(Empty, V_Hardware, None)
  /\ call.out.ok

\* A mapping without L1 and L3 is reported with both, L1 first
C13_WitnessMissing ==
  /\ call.fn = "_validate_schema"
  /\ call.arg = Mapping(Absent, V_Hardware, Absent)
  /\ call.out.msg = <<"M","i","s","s","i","n","g"," ","f","i","e","l","d","s",":"," ","L","1",","," ","L","3">>

-----------------------------------------------------------------------------
\* The confidence is absent, null, not coercible to a number, or a number
\* that is not within [0, 1]
NoConfidence(raw) ==
  \/ raw \in {Absent, None}
  \/ Float(raw).exc
  \/ ~(Float(raw).kind = "fin" /\ 0 <= Float(raw).value /\ Float(raw).value <= 100)

(* C14: a confidence that is not coercible to a number or is not within    *)
(* [0, 1] is labelled "-"; otherwise a value >= 0.80 is labelled High, a   *)
(* value >= 0.50 and < 0.80 Medium, a value < 0.50 Low: 0.80 gives "High   *)
(* (0.80)", 0.79 "Medium (0.79)", 0.50 "Medium (0.50)".                    *)
C14_ConfidenceBands ==
  call.fn = "_confidence_label"
    => /\ NoConfidence(call.arg) <=> call.out = <<"-">>
       /\ ~NoConfidence(call.arg)
            => /\ Float(call.arg).value >= 80
                    <=> startswith(call.out, <<"H","i","g","h"," ">>)
               /\ (Float(call.arg).value >= 50 /\ Float(call.arg).value < 80)
                    <=> startswith(call.out, <<"M","e","d","i","u","m"," ">>)
               /\ Float(call.arg).value < 50
                    <=> startswith(call.out, <<"L","o","w"," ">>)
       /\ call.arg = JNum(80) => call.out = <<"H","i","g","h"," ","(","0",".","8","0",")">>
       /\ call.arg = JNum(79)
            => call.out = <<"M","e","d","i","u","m"," ","(","0",".","7","9",")">>
       /\ call.arg = JNum(50)
            => call.out = <<"M","e","d","i","u","m"," ","(","0",".","5","0",")">>

-----------------------------------------------------------------------------
\* The step is a Classify click that ends with the classification displayed
ShownStep ==
  pc' = "idle" /\ nReq' = nReq + 1 /\ req'.outcome = "displayed"

\* The step is a Clear click
ClearStep == pc' = "idle" /\ nReq' = nReq /\ req' = NoReq

\* The history after the step is the history before it with one item for the
\* request put in front, cut to its first 10 items
Pushed ==
  /\ history' # <<>>
  /\ history'[1].description = strip(req'.desc)
  /\ history'[1].supplier = strip(req'.supp)
  /\ history'[1].raw = req'.parsed
  /\ Len(history') = (IF Len(history) < 10 THEN Len(history) + 1 ELSE 10)
  /\ \A i \in 2..Len(history') : history'[i] = history[i - 1]

(* C15: the history holds at most 10 items, the most recent displayed      *)
(* single classifications, newest first; each displayed classification    *)
(* adds exactly one item in front; and an item leaves the history only by  *)
(* falling off the 10-item bound or when Clear empties the history.        *)
C15_HistoryBounded ==
  [][ /\ Len(history') <= 10
      /\ ShownStep => Pushed
      /\ ~ShownStep
           => \/ history' = history
              \/ ClearStep /\ history' = <<>> ]_vars

C15_Witness ==
  /\ nReq = 11
  /\ req.outcome = "displayed"
  /\ Len(history) = 10
  /\ history[1].description = DescA
  /\ history[10].description = DescB

\* C15 as stated: append-only, an item leaves only by falling off the bound
C15_AppendOnly ==
  [][ /\ Len(history') <= 10
      /\ ShownStep => Pushed
      /\ ~ShownStep => history' = history ]_vars

-----------------------------------------------------------------------------
(* C16: in bulk mode, a row whose trimmed description is empty is recorded *)
(* with status "missing description" and empty l1, l2 and l3; handling it  *)
(* makes no collaborator call and leaves the cache as it is.               *)
C16_MissingDescription ==
  [][ (pc = "bulk" /\ idx' = idx + 1 /\ Field(rows[idx + 1].description) = <<>>)
      => /\ Len(results') = Len(results) + 1
         /\ SubSeq(results', 1, Len(results)) = results
         /\ results'[Len(results')].status = "missing description"
         /\ results'[Len(results')].description = <<>>
         /\ results'[Len(results')].supplier = Field(rows[idx + 1].supplier)
         /\ results'[Len(results')].l1 = Empty
         /\ results'[Len(results')].l2 = Empty
         /\ results'[Len(results')].l3 = Empty
         /\ req'.calls = 0
         /\ req'.replies = <<>>
         /\ cache' = cache ]_vars

C16_Witness ==
  /\ pc = "bulk"
  /\ idx = 2
  /\ Field(rows[2].description) = <<>>
  /\ results[2].status = "missing description"
  /\ results[1].status = "ok"
  /\ req.path = "bulk"
  /\ req.calls = 0
  /\ cache # <<>>

-----------------------------------------------------------------------------
(* C17: the parser returns a mapping or null for every raw reply: what a   *)
(* request hands on as its parsed classification is a mapping or null,     *)
(* every value in the cache is a mapping, and no request ends in an        *)
(* unhandled exception on a parsed value that is not a mapping.            *)
C17_ParserMappingOrNull ==
  /\ req.parsed.t \in {"null", "obj"}
  /\ \A k \in DOMAIN cache : cache[k].t = "obj"
  /\ ~(req.outcome = "crash" /\ req.parsed.t # "obj")

-----------------------------------------------------------------------------
(* C18: a key that is in the cache stays in it with the same value over    *)
(* every step (single, bulk, evaluation, Clear); a Clear click leaves the  *)
(* cache exactly as it is and touches description, supplier and history    *)
(* only, which it empties together or not at all.                          *)
C18_CacheStable ==
  [][ /\ \A k \in DOMAIN cache : k \in DOMAIN cache' /\ cache'[k] = cache[k]
      /\ ClearStep =>
           /\ cache' = cache
           /\ \/ po_desc' = <<>> /\ supplier' = <<>> /\ history' = <<>>
              \/ UNCHANGED <<po_desc, supplier, history>> ]_vars

\* A bulk run has stored a second key next to the first
C18_Witness ==
  /\ Cardinality(DOMAIN cache) = 2
  /\ history = <<>>
  /\ req.path = "bulk"
  /\ pc = "bulk_done"

\* The cache is not empty right after a Clear click
C18_WitnessClear ==
  /\ pc = "idle"
  /\ req = NoReq
  /\ cache # <<>>
  /\ po_desc = <<>>
  /\ history = <<>>

-----------------------------------------------------------------------------
\* The value under the first key, in the mapping's order, that normalises
\* (strip + lower) to the name; None without such a key
FirstLevel(m, name) ==
  LET I == { i \in 1..Len(m.kv) : lower(strip(m.kv[i][1])) = name }
  IN  IF I = {} THEN None
      ELSE m.kv[CHOOSE i \in I : \A j \in I : i <= j][2]

(* C19: when several keys of the mapping normalise to the same level name, *)
(* level extraction gives, for each level, the value under the first such  *)
(* key in the mapping's order.                                             *)
C19_FirstKeyWins ==
  call.fn = "_extract_levels"
    => call.out = <<FirstLevel(call.arg, K_l1), FirstLevel(call.arg, K_l2),
                    FirstLevel(call.arg, K_l3)>>

-----------------------------------------------------------------------------
\* The call of classify_po has started / has come to its end
CollabStarted == call.fn = "classify_po"
CollabFinished == CollabStarted /\ call.at \in {"returned", "raised"}

\* s is a prefix of t
IsPrefix(s, t) == Len(s) <= Len(t) /\ s = SubSeq(t, 1, Len(s))

\* The number of create calls in the log
Creates(log) == Cardinality({ i \in 1..Len(log) : log[i] = "create" })

\* What one call may do, in order: an attempt, the delay, a second attempt
CollabPlan == <<"create", "sleep", "create">>

CollabSafe ==
  CollabStarted =>
    /\ IsPrefix(call.log, CollabPlan)
    /\ Creates(call.log) <= 2
    /\ Len(call.log) >= 2 => call.transport[1].fails
    /\ call.at = "returned" =>
         /\ call.log \in {<<"create">>, CollabPlan}
         /\ ~call.transport[Creates(call.log)].fails
         /\ \A i \in 1..(Creates(call.log) - 1) : call.transport[i].fails
         /\ call.out = [raises |-> FALSE,
                        content |-> call.transport[Creates(call.log)].content]
    /\ call.at = "raised" =>
         /\ call.log = CollabPlan
         /\ call.transport[1].fails /\ call.transport[2].fails
         /\ call.out = [raises |-> TRUE]
    /\ CollabFinished =>
         /\ call.out = Outcome(classify_po(call.transport))
         /\ Creates(call.log) = classify_po(call.transport).attempts

(* C20: one call of classify_po makes at most two transport attempts; it   *)
(* returns the content of the first attempt that succeeds and attempts no  *)
(* more; it sleeps once, and only between a failed first attempt and the   *)
(* second; it raises only after two failed attempts in a row; and every    *)
(* call that starts comes to its end.                                      *)
C20_TwoAttemptsOneDelay ==
  /\ []CollabSafe
  /\ CollabStarted ~> CollabFinished

\* The first attempt failed, the second gave the content that is returned
C20_Witness ==
  /\ CollabStarted
  /\ call.at = "returned"
  /\ call.log = CollabPlan
  /\ call.out.content = TextOk1

\* Both attempts failed and the call raised
C20_WitnessRaised ==
  /\ CollabStarted
  /\ call.at = "raised"
  /\ call.log = CollabPlan

-----------------------------------------------------------------------------
\* The step handles one row of the bulk or evaluation loop
RowStep == pc \in {"bulk", "eval"} /\ pc' = pc

\* The step ends the loop over a file that has rows
LoopEnd ==
  pc \in {"bulk", "eval"} /\ pc' \in {"bulk_done", "eval_done"} /\ rows # <<>>

(* C21: the bulk and evaluation loops take the rows in input order, one    *)
(* per step, and after row k of n has been handled, skipped rows included, *)
(* the reported progress is k/n; when the loop over a file with rows ends, *)
(* every row has been handled and the progress is n/n.                     *)
C21_ProgressAfterEachRow ==
  [][ /\ RowStep => /\ idx' = idx + 1
                    /\ rows' = rows
                    /\ progress' = <<idx', Len(rows)>>
      /\ LoopEnd => /\ idx = Len(rows)
                    /\ progress' = <<Len(rows), Len(rows)>> ]_vars

====
